---------------------------- MODULE Spec2Model ----------------------------
(***************************************************************************)
(* The Amazing Audio Engine, AEUtilities.c: allocation, copy, release,     *)
(* in-place initialisation and frame-count query of AudioBufferList.       *)
(*                                                                         *)
(* The heap is a function from live block addresses to blocks.  Every      *)
(* library function is one action; its loop is a RECURSIVE operator that   *)
(* follows the C statement by statement.  The C types keep their           *)
(* conversions: UInt32 fields wrap modulo 2^IntBits and int values are the *)
(* two's complement reading of the same word (the program's words are 32   *)
(* bits wide; the model's are IntBits wide).                               *)
(***************************************************************************)
EXTENDS Integers, Sequences, FiniteSets, TLC

VARIABLES heap, heapError, owned, crashed, last, query, view

vars == <<heap, heapError, owned, crashed, last, query, view>>

---------------------------------------------------------------------------
(* Bounds of the model *)

\* width of the model's machine word (UInt32 and int in the program)
IntBits == 8
\* largest mChannelsPerFrame the callers of allocate pass
MaxChannels == 2
\* largest number of buffer lists the caller owns at once
MaxLists == 2

---------------------------------------------------------------------------
(* Program constants *)

NULL == 0
\* CoreAudio: kAudioFormatFlagIsNonInterleaved = (1 << 5)
kAudioFormatFlagIsNonInterleaved == 32
\* sizeof(AudioBuffer): UInt32, UInt32, void* on a 64-bit build
SizeofAudioBuffer == 16
\* sizeof(AudioBufferList): UInt32, padding, one AudioBuffer
SizeofAudioBufferList == 24

---------------------------------------------------------------------------
(* Integer conversions of the C types *)

Modulus == 2 ^ IntBits

\* conversion to UInt32: reduction modulo 2^w
ToUInt32(x) == x % Modulus

\* conversion of a word to int: two's complement
ToInt(x) ==
    LET u == x % Modulus
    IN  IF u >= Modulus \div 2 THEN u - Modulus ELSE u

\* mFormatFlags & kAudioFormatFlagIsNonInterleaved
IsNonInterleaved(audioFormat) ==
    (audioFormat.mFormatFlags \div kAudioFormatFlagIsNonInterleaved) % 2 = 1

---------------------------------------------------------------------------
(* The heap: malloc, free, memcpy *)

\* the bytes of a block nobody has written: byte i of the block at p holds
\* an indeterminate value, named <<p, i>>
Uninitialized(p, size) == [i \in 1..size |-> <<p, i>>]

\* the address malloc returns: a block that is not live
NewBlock(h) ==
    CHOOSE p \in 1..(Cardinality(DOMAIN h) + 1) :
        /\ p \notin DOMAIN h
        /\ \A q \in 1..(p - 1) : q \in DOMAIN h

\* s is the machine state during one call: the heap, the record of invalid
\* frees, the malloc/free events of the call, the number of malloc calls made
\* and whether one of them failed; failCall is the malloc call that fails
\* (0: none)
mallocFails(s, failCall) == s.calls + 1 = failCall

malloc(s, size, failCall) ==
    IF mallocFails(s, failCall)
    THEN [s |-> [s EXCEPT !.calls = @ + 1, !.failed = TRUE], p |-> NULL]
    ELSE LET p == NewBlock(s.heap)
         IN  [s |-> [s EXCEPT
                       !.heap = (p :> [size |-> size,
                                       bytes |-> Uninitialized(p, size),
                                       mNumberBuffers |-> 0,
                                       mBuffers |-> <<>>]) @@ @,
                       !.calls = @ + 1,
                       !.trace = Append(@, <<"malloc", p>>)],
              p |-> p]

\* free(p): p must be a live block (free(NULL) does nothing)
free(s, p) ==
    IF p = NULL THEN s
    ELSE IF p \notin DOMAIN s.heap
    THEN [s EXCEPT !.err = TRUE, !.trace = Append(@, <<"free", p>>)]
    ELSE [s EXCEPT !.heap = [q \in (DOMAIN s.heap) \ {p} |-> s.heap[q]],
                   !.trace = Append(@, <<"free", p>>)]

\* memcpy(dst, src, n) with src a live block
memcpy(s, dst, src, n) ==
    [s EXCEPT !.heap[dst].bytes =
        [i \in 1..Len(@) |-> IF i <= n THEN s.heap[src].bytes[i] ELSE @[i]]]

\* the state of the machine when a call starts
Enter == [heap |-> heap, err |-> heapError, trace |-> <<>>, calls |-> 0,
          failed |-> FALSE]


---------------------------------------------------------------------------
(* AudioBufferList structures in the heap *)

\* list->mNumberBuffers = n: the block now holds an AudioBufferList
StoreNumberBuffers(s, list, n) ==
    [s EXCEPT !.heap[list].mNumberBuffers = ToUInt32(n),
              !.heap[list].bytes = <<>>]

\* list->mBuffers[i] = buf
StoreBuffer(s, list, i, buf) ==
    [s EXCEPT !.heap[list].mBuffers =
        IF i + 1 <= Len(@) THEN [@ EXCEPT ![i + 1] = buf] ELSE Append(@, buf)]

\* for ( int j=0; j<i; j++ ) free(audio->mBuffers[j].mData);
RECURSIVE FreeBuffersBelow(_, _, _, _)
FreeBuffersBelow(s, audio, j, i) ==
    IF j >= i THEN s
    ELSE FreeBuffersBelow(free(s, s.heap[audio].mBuffers[j + 1].mData),
                          audio, j + 1, i)

---------------------------------------------------------------------------
(* AEAllocateAndInitAudioBufferList *)

\* a variant that gives every format one buffer per channel
NumberOfBuffersPerChannel(audioFormat) ==
    ToInt(audioFormat.mChannelsPerFrame)

NumberOfBuffers(audioFormat) ==
    ToInt(IF IsNonInterleaved(audioFormat)
          THEN audioFormat.mChannelsPerFrame ELSE 1)

ChannelsPerBuffer(audioFormat) ==
    ToInt(IF IsNonInterleaved(audioFormat)
          THEN 1 ELSE audioFormat.mChannelsPerFrame)

\* UInt32 * int is computed in UInt32 and converted to int
BytesPerBuffer(audioFormat, frameCount) ==
    ToInt(ToUInt32(audioFormat.mBytesPerFrame * ToUInt32(frameCount)))

\* sizeof(AudioBufferList) + (numberOfBuffers-1)*sizeof(AudioBuffer), in size_t
AllocateListSize(numberOfBuffers) ==
    SizeofAudioBufferList + (numberOfBuffers - 1) * SizeofAudioBuffer

\* a variant that records no size for a buffer without data
AllocateBufferClamped(mData, bytesPerBuffer, channelsPerBuffer) ==
    [mData |-> mData,
     mDataByteSize |-> IF bytesPerBuffer > 0 THEN ToUInt32(bytesPerBuffer)
                       ELSE 0,
     mNumberChannels |-> ToUInt32(channelsPerBuffer)]

\* the two stores that end the loop body
AllocateBuffer(mData, bytesPerBuffer, channelsPerBuffer) ==
    [mData |-> mData,
     mDataByteSize |-> ToUInt32(bytesPerBuffer),
     mNumberChannels |-> ToUInt32(channelsPerBuffer)]

\* a variant of the failure path that frees the buffers and keeps the list
AllocateUnwindKeepsList(s, audio, i) == FreeBuffersBelow(s, audio, 0, i)

\* the failure path of the loop: free what was allocated, then the list
AllocateUnwind(s, audio, i) == free(FreeBuffersBelow(s, audio, 0, i), audio)

RECURSIVE AllocateLoop(_, _, _, _, _, _, _)
AllocateLoop(s, audio, i, numberOfBuffers, bytesPerBuffer, channelsPerBuffer, failCall) ==
    IF i >= numberOfBuffers THEN [s |-> s, result |-> audio]
    ELSE IF bytesPerBuffer > 0
    THEN LET m == malloc(s, bytesPerBuffer, failCall)
         IN  IF m.p = NULL
             THEN [s |-> AllocateUnwind(m.s, audio, i), result |-> NULL]
             ELSE AllocateLoop(
                      StoreBuffer(m.s, audio, i,
                          AllocateBuffer(m.p, bytesPerBuffer, channelsPerBuffer)),
                      audio, i + 1, numberOfBuffers, bytesPerBuffer,
                      channelsPerBuffer, failCall)
    ELSE AllocateLoop(
             StoreBuffer(s, audio, i,
                 AllocateBuffer(NULL, bytesPerBuffer, channelsPerBuffer)),
             audio, i + 1, numberOfBuffers, bytesPerBuffer,
             channelsPerBuffer, failCall)

Allocate(s, audioFormat, frameCount, failCall) ==
    LET numberOfBuffers == NumberOfBuffers(audioFormat)
        channelsPerBuffer == ChannelsPerBuffer(audioFormat)
        bytesPerBuffer == BytesPerBuffer(audioFormat, frameCount)
        m == malloc(s, AllocateListSize(numberOfBuffers), failCall)
    IN  IF m.p = NULL THEN [s |-> m.s, result |-> NULL]
        ELSE AllocateLoop(StoreNumberBuffers(m.s, m.p, numberOfBuffers),
                          m.p, 0, numberOfBuffers, bytesPerBuffer,
                          channelsPerBuffer, failCall)

---------------------------------------------------------------------------
(* AECopyAudioBufferList *)

\* original->mNumberBuffers-1 is computed in UInt32, then widened to size_t
CopyListSize(mNumberBuffers) ==
    SizeofAudioBufferList + ToUInt32(mNumberBuffers - 1) * SizeofAudioBuffer

CopyBuffer(mData, source) ==
    [mData |-> mData,
     mDataByteSize |-> source.mDataByteSize,
     mNumberChannels |-> source.mNumberChannels]

CopyUnwind(s, audio, i) == free(FreeBuffersBelow(s, audio, 0, i), audio)

\* memcpy(dst, NULL, n) with n > 0 reads through a null pointer: undefined
\* behaviour.  The builds either fault, or return with whatever the bytes at
\* address 0 are.
MemcpyFromNull(s, dst, n) ==
    [s EXCEPT !.heap[dst].bytes =
        [i \in 1..Len(@) |-> IF i <= n THEN <<NULL, i>> ELSE @[i]]]

RECURSIVE CopyLoop(_, _, _, _, _, _)
CopyLoop(s, audio, original, i, failCall, faults) ==
    IF i >= s.heap[original].mNumberBuffers
    THEN [s |-> s, result |-> audio, crashed |-> FALSE]
    ELSE LET source == s.heap[original].mBuffers[i + 1]
             m == malloc(s, source.mDataByteSize, failCall)
             stored == StoreBuffer(m.s, audio, i, CopyBuffer(m.p, source))
         IN  IF m.p = NULL
             THEN [s |-> CopyUnwind(m.s, audio, i),
                   result |-> NULL, crashed |-> FALSE]
             ELSE IF source.mData # NULL
             THEN CopyLoop(memcpy(stored, m.p, source.mData,
                                  source.mDataByteSize),
                           audio, original, i + 1, failCall, faults)
             ELSE IF source.mDataByteSize = 0
             \* memcpy(dst, NULL, 0) copies nothing
             THEN CopyLoop(stored, audio, original, i + 1, failCall, faults)
             ELSE IF faults
             THEN [s |-> stored, result |-> NULL, crashed |-> TRUE]
             ELSE CopyLoop(MemcpyFromNull(stored, m.p, source.mDataByteSize),
                           audio, original, i + 1, failCall, faults)

Copy(s, original, failCall, faults) ==
    LET m == malloc(s, CopyListSize(s.heap[original].mNumberBuffers), failCall)
    IN  IF m.p = NULL THEN [s |-> m.s, result |-> NULL, crashed |-> FALSE]
        ELSE CopyLoop(StoreNumberBuffers(m.s, m.p,
                                         s.heap[original].mNumberBuffers),
                      m.p, original, 0, failCall, faults)

---------------------------------------------------------------------------
(* AEFreeAudioBufferList *)

RECURSIVE FreeLoop(_, _, _)
FreeLoop(s, bufferList, i) ==
    IF i >= s.heap[bufferList].mNumberBuffers THEN s
    ELSE LET mData == s.heap[bufferList].mBuffers[i + 1].mData
         IN  FreeLoop(IF mData # NULL THEN free(s, mData) ELSE s,
                      bufferList, i + 1)

\* a variant that frees the list and none of its buffers
FreeListOnly(s, bufferList) == free(s, bufferList)

Free(s, bufferList) == free(FreeLoop(s, bufferList, 0), bufferList)

---------------------------------------------------------------------------
(* AEInitAudioBufferList *)

\* the AudioBuffer slots a region of listSize bytes has room for
SlotsIn(listSize) ==
    IF listSize < SizeofAudioBufferList THEN 0
    ELSE 1 + (listSize - SizeofAudioBufferList) \div SizeofAudioBuffer

\* a slot of the caller's region that nobody has written
UnwrittenSlot ==
    [written |-> FALSE, mNumberChannels |-> 0, mDataByteSize |-> 0,
     mData |-> NULL]

\* list->mNumberBuffers = ...
InitNumberBuffers(audioFormat) ==
    ToUInt32(IF IsNonInterleaved(audioFormat)
             THEN audioFormat.mChannelsPerFrame ELSE 1)

\* the condition of the assert; listSize is converted to size_t, so that a
\* negative listSize compares as a huge one
InitAssertion(mNumberBuffers, listSize) ==
    \/ mNumberBuffers = 1
    \/ listSize < 0
    \/ listSize >= SizeofAudioBufferList + SizeofAudioBuffer

\* the slot of list->mBuffers that iteration i of the loop writes
InitSlot(i) == 0

\* what iteration i of the loop stores
InitBuffer(i, mNumberBuffers, audioFormat, data, dataSize) ==
    [written |-> TRUE,
     mNumberChannels |-> ToUInt32(IF IsNonInterleaved(audioFormat)
                                  THEN 1 ELSE audioFormat.mChannelsPerFrame),
     mData |-> data + ToUInt32(i * (ToUInt32(dataSize) \div mNumberBuffers)),
     mDataByteSize |-> ToUInt32(dataSize) \div mNumberBuffers]

RECURSIVE InitLoop(_, _, _, _, _, _)
InitLoop(mBuffers, i, mNumberBuffers, audioFormat, data, dataSize) ==
    IF i >= mNumberBuffers THEN mBuffers
    ELSE InitLoop([mBuffers EXCEPT ![InitSlot(i) + 1] =
                      InitBuffer(i, mNumberBuffers, audioFormat, data, dataSize)],
                  i + 1, mNumberBuffers, audioFormat, data, dataSize)

---------------------------------------------------------------------------
(* AEGetNumberOfFramesInAudioBufferList *)

\* a variant that reads the channel count of buffer 0 whatever the format
ChannelCountOfFirstBuffer(list, audioFormat) ==
    ToInt(list.mBuffers[1].mNumberChannels)

ChannelCount(list, audioFormat) ==
    ToInt(IF IsNonInterleaved(audioFormat)
          THEN list.mNumberBuffers
          ELSE list.mBuffers[1].mNumberChannels)

\* if ( oNumberOfChannels ) *oNumberOfChannels = channelCount;
StoreChannels(wantChannels, channelCount) ==
    [written |-> wantChannels,
     value |-> IF wantChannels THEN channelCount ELSE 0]

\* a variant that counts 16-bit words per sample
FramesDivisorInWords(audioFormat, channelCount) ==
    ToUInt32((audioFormat.mBitsPerChannel \div 16) * ToUInt32(channelCount))

\* (audioFormat->mBitsPerChannel/8) * channelCount, computed in UInt32
FramesDivisor(audioFormat, channelCount) ==
    ToUInt32((audioFormat.mBitsPerChannel \div 8) * ToUInt32(channelCount))

\* the UInt32 quotient, returned as int
NumberOfFrames(list, divisor) ==
    ToInt(list.mBuffers[1].mDataByteSize \div divisor)

---------------------------------------------------------------------------
(* The caller: the formats and frame counts it passes *)

\* signed integer, packed; with and without the non-interleaved flag
FlagValues == {12, 12 + kAudioFormatFlagIsNonInterleaved}

\* the formats and frame counts of the callers that allocate, copy and
\* release: 32-bit samples, non-interleaved with 0..MaxChannels channels or
\* interleaved with MaxChannels channels; a negative count, zero and one
AllocFormats ==
    {f \in [mFormatFlags : FlagValues,
            mChannelsPerFrame : 0..MaxChannels,
            mBytesPerFrame : {4},
            mBitsPerChannel : {32}] :
        IsNonInterleaved(f) \/ f.mChannelsPerFrame = MaxChannels}

AllocFrameCounts == {-1, 0, 1}

NoFormat ==
    [mFormatFlags |-> 0, mChannelsPerFrame |-> 0, mBytesPerFrame |-> 0,
     mBitsPerChannel |-> 0]

NoQuery ==
    [done |-> FALSE, list |-> NULL, audioFormat |-> NoFormat,
     wantChannels |-> FALSE, written |-> FALSE, oNumberOfChannels |-> 0,
     channelCount |-> 0, divisor |-> 0, returned |-> FALSE, frames |-> 0]

NoView ==
    [state |-> "none", listSize |-> 0, mNumberBuffers |-> 0, mBuffers |-> <<>>,
     audioFormat |-> NoFormat, data |-> NULL, dataSize |-> 0]

Init ==
    /\ heap = <<>>
    /\ heapError = FALSE
    /\ owned = {}
    /\ crashed = FALSE
    /\ last = [op |-> "none", audioFormat |-> NoFormat, frameCount |-> 0,
               original |-> NULL, buffers |-> 0, failed |-> FALSE,
               result |-> NULL, trace |-> <<>>]
    /\ query = NoQuery
    /\ view = NoView

\* last records the call just made: its result, the malloc/free events it
\* made and whether a malloc failed in it.  The inputs of an allocate call are
\* recorded when noted is set; a malloc of the call may fail when failing is
\* set.
AllocateCall(formats, frameCounts, maxLists, noted, failing) ==
    /\ ~crashed
    /\ Cardinality(owned) < maxLists
    /\ \E audioFormat \in formats, frameCount \in frameCounts :
       \E failCall \in IF failing THEN 0..(NumberOfBuffers(audioFormat) + 1)
                        ELSE {0} :
          LET r == Allocate(Enter, audioFormat, frameCount, failCall)
          IN  /\ heap' = r.s.heap
              /\ heapError' = r.s.err
              /\ owned' = IF r.result = NULL THEN owned
                          ELSE owned \cup {r.result}
              /\ last' = [op |-> "allocate",
                          audioFormat |-> IF noted THEN audioFormat
                                          ELSE NoFormat,
                          frameCount |-> IF noted THEN frameCount ELSE 0,
                          original |-> NULL,
                          buffers |-> 0, failed |-> r.s.failed,
                          result |-> r.result, trace |-> r.s.trace]
    /\ UNCHANGED <<crashed, query, view>>

AEAllocateAndInitAudioBufferList ==
    AllocateCall(AllocFormats, AllocFrameCounts, MaxLists, FALSE, TRUE)

AECopyAudioBufferList ==
    /\ ~crashed
    /\ Cardinality(owned) < MaxLists
    /\ \E original \in owned, faults \in BOOLEAN :
       \E failCall \in 0..(heap[original].mNumberBuffers + 1) :
          LET r == Copy(Enter, original, failCall, faults)
          IN  /\ heap' = r.s.heap
              /\ heapError' = r.s.err
              /\ crashed' = r.crashed
              /\ owned' = IF r.result = NULL THEN owned
                          ELSE owned \cup {r.result}
              /\ last' = [op |-> "copy", audioFormat |-> NoFormat,
                          frameCount |-> 0, original |-> original,
                          buffers |-> heap[original].mNumberBuffers,
                          failed |-> r.s.failed,
                          result |-> r.result, trace |-> r.s.trace]
    /\ UNCHANGED <<query, view>>

AEFreeAudioBufferList ==
    /\ ~crashed
    /\ \E bufferList \in owned :
          LET s == Free(Enter, bufferList)
          IN  /\ heap' = s.heap
              /\ heapError' = s.err
              /\ owned' = owned \ {bufferList}
              /\ last' = [op |-> "free", audioFormat |-> NoFormat,
                          frameCount |-> 0, original |-> bufferList,
                          buffers |-> heap[bufferList].mNumberBuffers,
                          failed |-> FALSE,
                          result |-> NULL, trace |-> s.trace]
    /\ UNCHANGED <<crashed, query, view>>

Next ==
    \/ AEAllocateAndInitAudioBufferList
    \/ AECopyAudioBufferList
    \/ AEFreeAudioBufferList

Spec == Init /\ [][Next]_vars

---------------------------------------------------------------------------
(* The frame-count query on the lists allocate returns *)

\* a channel count and two sample widths that overflow the divisor
BigChannels == Modulus \div 16

BitsValues ==
    {0, 4, 8, 16, 8 * (Modulus \div 16), 8 * (Modulus \div 16 + 1)}

QueryFormats ==
    {f \in [mFormatFlags : FlagValues,
            mChannelsPerFrame : (0..MaxChannels) \cup {BigChannels},
            mBytesPerFrame : {1, 4},
            mBitsPerChannel : BitsValues] :
        f.mChannelsPerFrame <= MaxChannels \/ ~IsNonInterleaved(f)}

\* a negative count, zero, one, and a count whose byte size overflows the word
QueryFrameCounts == {-1, 0, 1, Modulus \div 4}

\* one list, its format and frame count recorded, no malloc failing
AllocateForQuery ==
    AllocateCall(QueryFormats, QueryFrameCounts, 1, TRUE, FALSE)

\* The query reads mBuffers[0], so the caller passes a list with a buffer.
\* It reads the flags and mBitsPerChannel of the format only: the caller
\* passes the formats that agree with the one of the allocation elsewhere.
\* A division by zero is undefined behaviour: the builds trap, or carry on
\* with a quotient of 0 (the ARM divide instruction).
AEGetNumberOfFramesInAudioBufferList ==
    /\ ~crashed
    /\ \E list \in owned, wantChannels \in BOOLEAN, traps \in BOOLEAN :
       \E audioFormat \in {f \in QueryFormats :
                /\ f.mChannelsPerFrame = last.audioFormat.mChannelsPerFrame
                /\ f.mBytesPerFrame = last.audioFormat.mBytesPerFrame} :
          /\ heap[list].mNumberBuffers >= 1
          /\ LET channelCount == ChannelCount(heap[list], audioFormat)
                 out == StoreChannels(wantChannels, channelCount)
                 divisor == FramesDivisor(audioFormat, channelCount)
             IN  /\ crashed' = (divisor = 0 /\ traps)
                 /\ query' = [done |-> TRUE, list |-> list,
                              audioFormat |-> audioFormat,
                              wantChannels |-> wantChannels,
                              written |-> out.written,
                              oNumberOfChannels |-> out.value,
                              channelCount |-> channelCount,
                              divisor |-> divisor,
                              returned |-> ~(divisor = 0 /\ traps),
                              frames |-> IF divisor = 0 THEN 0
                                         ELSE NumberOfFrames(heap[list],
                                                             divisor)]
    /\ UNCHANGED <<heap, heapError, owned, last, view>>

NextFrames ==
    \/ AllocateForQuery
    \/ AEGetNumberOfFramesInAudioBufferList

SpecFrames == Init /\ [][NextFrames]_vars

---------------------------------------------------------------------------
(* In-place initialisation of a region of the caller *)

ListSizes ==
    {SizeofAudioBufferList + k * SizeofAudioBuffer : k \in 0..MaxChannels}

ViewFormats ==
    [mFormatFlags : FlagValues,
     mChannelsPerFrame : 0..(MaxChannels + 1),
     mBytesPerFrame : {4},
     mBitsPerChannel : {32}]

DataSizes == {0, 1, 8, 9, 12}

\* the address of the caller's sample data
DataAddresses == {4096}

InitView ==
    /\ heap = <<>>
    /\ heapError = FALSE
    /\ owned = {}
    /\ crashed = FALSE
    /\ last = [op |-> "none", audioFormat |-> NoFormat, frameCount |-> 0,
               original |-> NULL, buffers |-> 0, failed |-> FALSE,
               result |-> NULL, trace |-> <<>>]
    /\ query = NoQuery
    /\ \E listSize \in ListSizes :
          view = [state |-> "fresh", listSize |-> listSize,
                  mNumberBuffers |-> 0,
                  mBuffers |-> [k \in 1..SlotsIn(listSize) |-> UnwrittenSlot],
                  audioFormat |-> NoFormat, data |-> NULL, dataSize |-> 0]

AEInitAudioBufferList ==
    /\ ~crashed
    /\ view.state \in {"fresh", "done"}
    /\ \E audioFormat \in ViewFormats, data \in DataAddresses,
          dataSize \in DataSizes :
          LET mNumberBuffers == InitNumberBuffers(audioFormat)
              passes == InitAssertion(mNumberBuffers, view.listSize)
          IN  /\ crashed' = ~passes
              /\ view' = [view EXCEPT
                     !.state = IF passes THEN "done" ELSE "aborted",
                     !.mNumberBuffers = mNumberBuffers,
                     !.mBuffers = IF passes
                                  THEN InitLoop(@, 0, mNumberBuffers,
                                                audioFormat, data, dataSize)
                                  ELSE @,
                     !.audioFormat = audioFormat,
                     !.data = data,
                     !.dataSize = dataSize]
    /\ UNCHANGED <<heap, heapError, owned, last, query>>

NextView == AEInitAudioBufferList

SpecView == InitView /\ [][NextView]_vars

---------------------------------------------------------------------------
(* Claims about allocate, under SpecFrames *)

\* the list the last allocate call returned has the shape the format asks
\* for, every buffer size bytes long with a live block of its own
AllocatedShape(size) ==
    /\ last.result # NULL
    /\ last.result \in DOMAIN heap
    /\ LET list == heap[last.result]
           channels == last.audioFormat.mChannelsPerFrame
           split == IsNonInterleaved(last.audioFormat)
       IN  /\ list.mNumberBuffers = IF split THEN channels ELSE 1
           /\ Len(list.mBuffers) = list.mNumberBuffers
           /\ \A i \in 1..Len(list.mBuffers) :
                 /\ list.mBuffers[i].mNumberChannels =
                        IF split THEN 1 ELSE channels
                 /\ list.mBuffers[i].mDataByteSize = size
                 /\ list.mBuffers[i].mData # NULL
                 /\ list.mBuffers[i].mData # last.result
                 /\ list.mBuffers[i].mData \in DOMAIN heap
                 /\ heap[list.mBuffers[i].mData].size = size
                 /\ Len(heap[list.mBuffers[i].mData].bytes) = size
           /\ \A i, j \in 1..Len(list.mBuffers) :
                 i # j => list.mBuffers[i].mData # list.mBuffers[j].mData

\* the byte size as the program computes it: the product reduced to the
\* machine word and read as a signed int
ComputedBytes ==
    ToInt(last.audioFormat.mBytesPerFrame * last.frameCount)

\* C2 as stated: whenever the product bytesPerFrame x F is positive and no
\* allocation fails, allocate returns N buffers of 1 channel (non-interleaved)
\* or 1 buffer of N channels (interleaved), each bytesPerFrame x F bytes long
\* with its own non-null block of that size.
C2_ProductSized ==
    ( /\ last.op = "allocate"
      /\ ~last.failed
      /\ last.audioFormat.mChannelsPerFrame >= 1
      /\ last.audioFormat.mBytesPerFrame * last.frameCount > 0 )
    => AllocatedShape(last.audioFormat.mBytesPerFrame * last.frameCount)

\* C2 amended: the same, for the byte size the program computes (the product
\* reduced modulo 2^32 and read as a signed int): whenever that is positive,
\* every buffer has that size and its own non-null block of that size.
C2_ComputedSized ==
    ( /\ last.op = "allocate"
      /\ ~last.failed
      /\ last.audioFormat.mChannelsPerFrame >= 1
      /\ ComputedBytes > 0 )
    => AllocatedShape(ComputedBytes)

\* a non-interleaved list of two buffers with data has been allocated
C2_Witness ==
    /\ last.op = "allocate"
    /\ ~last.failed
    /\ IsNonInterleaved(last.audioFormat)
    /\ last.audioFormat.mChannelsPerFrame = 2
    /\ ComputedBytes > 0
    /\ last.result \in DOMAIN heap
    /\ Len(heap[last.result].mBuffers) = 2

\* the list the last allocate call returned has no data: one malloc (the
\* list), every data pointer null, every byte size equal to recorded
EmptyShape(recorded) ==
    /\ last.result # NULL
    /\ last.result \in DOMAIN heap
    /\ last.trace = << <<"malloc", last.result>> >>
    /\ LET list == heap[last.result]
       IN  /\ Len(list.mBuffers) = list.mNumberBuffers
           /\ \A i \in 1..Len(list.mBuffers) :
                 /\ list.mBuffers[i].mData = NULL
                 /\ list.mBuffers[i].mDataByteSize = recorded

\* C9 as stated: when the computed byte size is zero or negative, allocate
\* attempts no backing allocation, returns a list when the list block was
\* allocated, every data pointer is null and every recorded byte size is the
\* computed value itself (zero, or the same negative value).
C9_RecordedAsGiven ==
    ( /\ last.op = "allocate"
      /\ ~last.failed
      /\ ComputedBytes <= 0 )
    => EmptyShape(ComputedBytes)

\* C9 amended: the same, but the recorded byte size is the computed value
\* converted to the unsigned 32-bit field: zero, or 2^32 + v for a negative v.
C9_RecordedUnsigned ==
    ( /\ last.op = "allocate"
      /\ ~last.failed
      /\ ComputedBytes <= 0 )
    => EmptyShape(IF ComputedBytes = 0 THEN 0 ELSE Modulus + ComputedBytes)

\* a list with a buffer has been allocated for a negative byte size
C9_Witness ==
    /\ last.op = "allocate"
    /\ ~last.failed
    /\ ComputedBytes < 0
    /\ last.result \in DOMAIN heap
    /\ Len(heap[last.result].mBuffers) >= 1
    /\ heap[last.result].mBuffers[1].mData = NULL

---------------------------------------------------------------------------
(* Claims about the frame-count query, under SpecFrames *)

\* the query returned, on the list at query.list
Queried == query.done /\ query.returned /\ query.list \in DOMAIN heap

\* the channel count the claims name: the buffer count of a non-interleaved
\* format, else the channel count of buffer 0
ClaimedChannels ==
    IF IsNonInterleaved(query.audioFormat)
    THEN heap[query.list].mNumberBuffers
    ELSE heap[query.list].mBuffers[1].mNumberChannels

FirstByteSize == heap[query.list].mBuffers[1].mDataByteSize

\* C4 as stated: for every format and frame count F for which the division of
\* the query is exact, frameCount(allocate(fmt, F), fmt) = F.
C4_RoundTrip ==
    ( /\ Queried
      /\ last.op = "allocate"
      /\ query.list = last.result
      /\ query.audioFormat = last.audioFormat
      /\ query.divisor # 0
      /\ FirstByteSize % query.divisor = 0 )
    => query.frames = last.frameCount

\* C8 as stated: the query reports C, returns the integer quotient of the
\* byte size of buffer 0 by (bitsPerChannel / 8) x C, and writes C to the
\* output location only when one is supplied.
C8_Quotient ==
    ( /\ Queried
      /\ (query.audioFormat.mBitsPerChannel \div 8) * ClaimedChannels # 0 )
    => /\ query.channelCount = ClaimedChannels
       /\ query.written = query.wantChannels
       /\ query.written => query.oNumberOfChannels = ClaimedChannels
       /\ query.frames =
             FirstByteSize \div
                ((query.audioFormat.mBitsPerChannel \div 8) * ClaimedChannels)

\* the returned frame count is the 32-bit quotient: with d the divisor
\* reduced modulo 2^32 and q the returned int read as an unsigned word,
\* q x d <= byte size < (q + 1) x d
WordQuotient ==
    LET d == ((query.audioFormat.mBitsPerChannel \div 8) * ClaimedChannels)
                 % Modulus
        q == query.frames % Modulus
    IN  /\ query.frames >= 0 - Modulus \div 2
        /\ query.frames < Modulus \div 2
        /\ d # 0 => /\ q * d <= FirstByteSize
                    /\ FirstByteSize < (q + 1) * d

\* C8 amended: the query reports C, writes it only when a location is
\* supplied, leaves the heap unchanged, and returns the quotient computed in
\* unsigned 32-bit arithmetic (the divisor (bitsPerChannel / 8) x C reduced
\* modulo 2^32) and converted to a signed int.
C8_WordQuotient ==
    [][ (query' # query /\ query'.returned)
        => /\ heap' = heap
           /\ owned' = owned
           /\ query'.list \in DOMAIN heap
           /\ (query.done => query'.list = query.list)
           /\ ( /\ query.channelCount = ClaimedChannels
                /\ query.written = query.wantChannels
                /\ query.written => query.oNumberOfChannels = ClaimedChannels
                /\ WordQuotient )' ]_vars

\* a query that was given an output location has returned a positive frame
\* count for a non-interleaved list of two buffers
C8_Witness ==
    /\ Queried
    /\ query.wantChannels
    /\ IsNonInterleaved(query.audioFormat)
    /\ heap[query.list].mNumberBuffers = 2
    /\ query.oNumberOfChannels = 2
    /\ query.frames > 0

\* C10 as stated: when bitsPerChannel and the channel count of the query are
\* nonzero, its divisor is nonzero.
C10_NonzeroSuffices ==
    ( /\ query.done
      /\ query.audioFormat.mBitsPerChannel # 0
      /\ query.channelCount # 0 )
    => query.divisor # 0

\* C10 amended: when bitsPerChannel is at least 8, the channel count is
\* nonzero and (bitsPerChannel / 8) x channelCount is below 2^32, the divisor
\* is nonzero and the query returns.
C10_WholeBytes ==
    ( /\ query.done
      /\ query.audioFormat.mBitsPerChannel >= 8
      /\ query.channelCount # 0
      /\ (query.audioFormat.mBitsPerChannel \div 8)
            * ToUInt32(query.channelCount) < Modulus )
    => query.divisor # 0 /\ query.returned

\* a query with 8 bits per channel and two channels has returned
C10_Witness ==
    /\ query.done
    /\ query.returned
    /\ query.audioFormat.mBitsPerChannel = 8
    /\ query.channelCount = 2
    /\ query.divisor = 2

---------------------------------------------------------------------------
(* Claims about the life of a list, under Spec *)

\* every block the call allocated was freed by it exactly once, after it was
\* allocated, and the call freed nothing else
BalancedTrace(t) ==
    \A k \in 1..Len(t) :
       /\ t[k][1] = "malloc" =>
             /\ Cardinality({j \in 1..Len(t) : t[j] = <<"free", t[k][2]>>}) = 1
             /\ \A j \in 1..Len(t) : t[j] = <<"free", t[k][2]>> => j > k
       /\ t[k][1] = "free" =>
             \E j \in 1..(k - 1) : t[j] = <<"malloc", t[k][2]>>

\* C1: an allocate or copy call in which a malloc fails, of the list or of
\* the block of any buffer, returns NULL and leaves the heap (the live blocks
\* and what they hold, the original of a copy included) and the owned lists
\* as they were: each block the call had allocated is freed exactly once and
\* no block is freed that is not live.
C1_FailureRestoresHeap ==
    [][ (last'.op \in {"allocate", "copy"} /\ last'.failed)
        => /\ last'.result = NULL
           /\ ~crashed'
           /\ heap' = heap
           /\ owned' = owned
           /\ ~heapError'
           /\ BalancedTrace(last'.trace) ]_vars

\* a copy has failed at the block of buffer 1, after the list and the block
\* of buffer 0 were allocated
C1_Witness ==
    /\ last.op = "copy"
    /\ last.failed
    /\ last.buffers = 2
    /\ Len(last.trace) = 4
    /\ last.trace[1][1] = "malloc"
    /\ last.trace[2][1] = "malloc"
    /\ last.trace[3] = <<"free", last.trace[2][2]>>
    /\ last.trace[4] = <<"free", last.trace[1][2]>>

\* C3 as stated: a copy of an allocated list in which no malloc fails returns
\* a list with the buffer count of the original and, for every buffer, the
\* byte size, the channel count and the bytes of the original, in a block of
\* its own, distinct from the blocks of the original and of the other buffers.
C3_CopyFaithful ==
    (last.op = "copy" /\ ~last.failed)
    => /\ ~crashed
       /\ last.result # NULL
       /\ last.result \in DOMAIN heap
       /\ last.original \in DOMAIN heap
       /\ LET o == heap[last.original]
              c == heap[last.result]
          IN  /\ c.mNumberBuffers = o.mNumberBuffers
              /\ Len(c.mBuffers) = Len(o.mBuffers)
              /\ \A i \in 1..Len(o.mBuffers) :
                    /\ c.mBuffers[i].mDataByteSize = o.mBuffers[i].mDataByteSize
                    /\ c.mBuffers[i].mNumberChannels =
                           o.mBuffers[i].mNumberChannels
                    /\ c.mBuffers[i].mData \in DOMAIN heap
                    /\ c.mBuffers[i].mData # o.mBuffers[i].mData
                    /\ \A j \in 1..Len(o.mBuffers) :
                          /\ c.mBuffers[i].mData # o.mBuffers[j].mData
                          /\ i # j => c.mBuffers[i].mData # c.mBuffers[j].mData
                    /\ IF o.mBuffers[i].mData \in DOMAIN heap
                       THEN heap[c.mBuffers[i].mData].bytes =
                                heap[o.mBuffers[i].mData].bytes
                       ELSE o.mBuffers[i].mDataByteSize = 0

\* the free events of a release of list: one per buffer with data, in the
\* order of the buffers, then the list
ReleaseEvents(p, list) ==
    LET withData == SelectSeq(list.mBuffers, LAMBDA b : b.mData # NULL)
    IN  [k \in 1..Len(withData) |-> <<"free", withData[k].mData>>]
            \o << <<"free", p>> >>

\* the blocks the owned lists account for: the lists and their buffers' data
Accounted(h, lists) ==
    (lists \cup UNION {{h[p].mBuffers[k].mData : k \in 1..Len(h[p].mBuffers)} :
                          p \in lists}) \ {NULL}

\* C5: a release frees the block of each buffer that has one, once and in
\* order, then the list, touches no other block and frees no block that is
\* not live; the live blocks are at all times those of the lists not yet
\* released, so that none is live once every list is released.
C5_ReleaseFreesAll ==
    [][ /\ ~heapError'
        /\ ~crashed' => DOMAIN heap' = Accounted(heap', owned')
        /\ (owned' = {} /\ ~crashed') => DOMAIN heap' = {}
        /\ last'.op = "free" =>
              /\ last'.original \in owned
              /\ last'.trace = ReleaseEvents(last'.original, heap[last'.original])
              /\ DOMAIN heap' =
                    (DOMAIN heap) \ {last'.trace[k][2] : k \in 1..Len(last'.trace)}
              /\ Cardinality(DOMAIN heap') = Cardinality(DOMAIN heap) - Len(last'.trace)
              /\ \A q \in DOMAIN heap' : heap'[q] = heap[q] ]_vars

\* the last list, one whose single buffer has no data, has been released with
\* one free and nothing is live
C5_Witness ==
    /\ last.op = "free"
    /\ last.buffers >= 1
    /\ last.trace = << <<"free", last.original>> >>
    /\ owned = {}
    /\ DOMAIN heap = {}
    /\ ~heapError

---------------------------------------------------------------------------
(* Claims about the in-place initialisation, under SpecView *)

\* the buffer count the format gives
ViewBuffers ==
    IF IsNonInterleaved(view.audioFormat)
    THEN view.audioFormat.mChannelsPerFrame ELSE 1

\* C6 as stated: after the initialisation of a region with room for B
\* descriptors, every buffer i in [0, B) has byte size S / B, data pointer
\* D + i x (S / B) and channel count 1 (non-interleaved) or N (interleaved).
C6_EveryBufferSet ==
    (view.state = "done" /\ ViewBuffers >= 1
        /\ Len(view.mBuffers) >= ViewBuffers)
    => \A i \in 0..(ViewBuffers - 1) :
          /\ view.mBuffers[i + 1].written
          /\ view.mBuffers[i + 1].mDataByteSize = view.dataSize \div ViewBuffers
          /\ view.mBuffers[i + 1].mData =
                 view.data + i * (view.dataSize \div ViewBuffers)
          /\ view.mBuffers[i + 1].mNumberChannels =
                 IF IsNonInterleaved(view.audioFormat)
                 THEN 1 ELSE view.audioFormat.mChannelsPerFrame

\* C7 as stated: with a buffer count B above 1 and a region smaller than B
\* descriptors need, the initialisation never completes normally.
C7_UndersizedRejected ==
    (ViewBuffers > 1
        /\ view.listSize <
              SizeofAudioBufferList + (ViewBuffers - 1) * SizeofAudioBuffer)
    => view.state # "done"

===========================================================================
